---- MODULE Spec2Model ----
(***************************************************************************)
(* Model of the OtcForm component                                          *)
(* (src/electron-app/src/components/OtcForm.vue).                          *)
(*                                                                         *)
(* The component state is the two props (editMode, otcTrade) and the ten   *)
(* data fields.  The operations are the otcTrade watcher (onTradeChange), *)
(* the v-model bindings of the template (userEdit), addTrade and cancel.   *)
(* The environment is the parent (which sets the props), the wall clock    *)
(* read by moment() and the host's local UTC offset used by moment's       *)
(* format and parse.                                                       *)
(*                                                                         *)
(* Strings are TLA+ strings, except the datetime field, which is a         *)
(* sequence of one-character strings so that formatting and parsing are    *)
(* computed digit by digit.                                                *)
(***************************************************************************)
EXTENDS Integers, Sequences, FiniteSets, TLC

VARIABLES
  editMode,     \* prop editMode
  otcTrade,     \* prop otcTrade: a StoredTrade or NULL
  id, pair, datetime, amount, rate, fee, feeCurrency, link, notes, type,
  now,          \* wall clock, seconds since the epoch (read by moment())
  utcOffset,    \* local UTC offset of the host, in minutes
  emitted,      \* events emitted by the most recent handler, in order
  lastOp,       \* the handler that ran last
  lastApplied,  \* the record updateFields was last called with, or NULL
  populatedBy,  \* which routine last wrote the whole field set
  edits         \* number of v-model edits since the field set was written

vars == <<editMode, otcTrade, id, pair, datetime, amount, rate, fee,
          feeCurrency, link, notes, type, now, utcOffset, emitted, lastOp,
          lastApplied, populatedBy, edits>>

fieldVars == <<id, pair, datetime, amount, rate, fee, feeCurrency, link,
               notes, type>>

(***************************************************************************)
(* Bounds                                                                  *)
(***************************************************************************)
MaxEdits == 3
MaxTicks == 1
MaxRT == 130

(***************************************************************************)
(* Values                                                                  *)
(***************************************************************************)
NULL == [isNull |-> TRUE]
UNDEFINED == "<undefined>"
NaN == -1
Location == "external"

TickSeconds == 45
NowStart == 1600000000
Offsets == {-300, 0, 330}

R1 == [trade_id |-> "abc", pair |-> "BTC_EUR", timestamp |-> 1600000000,
       amount |-> "1", rate |-> "9000", fee |-> "0", fee_currency |-> "EUR",
       link |-> "", notes |-> "", trade_type |-> "buy"]
R2 == [trade_id |-> "def", pair |-> "ETH_EUR", timestamp |-> 1583020800,
       amount |-> "2", rate |-> "2000", fee |-> "0.1", fee_currency |-> "ETH",
       link |-> "http://x", notes |-> "n", trade_type |-> "sell"]
Records == {R1, R2}

RTTimes == (0..MaxRT) \cup {3599, 3600, 86399, 86400, 86401, 951782399,
            951782400, 951868800, 1582934399, 1583020799, 1583020800,
            1600000000, 1609459199, 1609459200}
RTRecords == {[R1 EXCEPT !.timestamp = t] : t \in RTTimes}

(***************************************************************************)
(* moment: local calendar time, 'DD/MM/YYYY HH:mm'                         *)
(***************************************************************************)
Digits == <<"0", "1", "2", "3", "4", "5", "6", "7", "8", "9">>
Digit(n) == Digits[n + 1]
IsDigit(c) == \E n \in 0..9 : Digits[n + 1] = c
DigitVal(c) == CHOOSE n \in 0..9 : Digits[n + 1] = c
Pad2(n) == <<Digit((n \div 10) % 10), Digit(n % 10)>>
Pad4(n) == <<Digit((n \div 1000) % 10), Digit((n \div 100) % 10),
             Digit((n \div 10) % 10), Digit(n % 10)>>
Num2(s, i) == DigitVal(s[i]) * 10 + DigitVal(s[i + 1])
Num4(s, i) == DigitVal(s[i]) * 1000 + DigitVal(s[i + 1]) * 100
              + DigitVal(s[i + 2]) * 10 + DigitVal(s[i + 3])

IsLeap(y) == (y % 4 = 0 /\ y % 100 /= 0) \/ y % 400 = 0
DaysInMonth(y, m) ==
  IF m = 2 THEN (IF IsLeap(y) THEN 29 ELSE 28)
  ELSE IF m \in {4, 6, 9, 11} THEN 30 ELSE 31

\* proleptic Gregorian date of a day number (days since 1970-01-01)
CivilFromDays(days) ==
  LET z == days + 719468
      era == z \div 146097
      doe == z - era * 146097
      yoe == (doe - doe \div 1460 + doe \div 36524 - doe \div 146096) \div 365
      doy == doe - (365 * yoe + yoe \div 4 - yoe \div 100)
      mp == (5 * doy + 2) \div 153
      d == doy - (153 * mp + 2) \div 5 + 1
      m == IF mp < 10 THEN mp + 3 ELSE mp - 9
  IN [Y |-> yoe + era * 400 + (IF m <= 2 THEN 1 ELSE 0), M |-> m, D |-> d]

DaysFromCivil(y, m, d) ==
  LET yy == IF m <= 2 THEN y - 1 ELSE y
      era == yy \div 400
      yoe == yy - era * 400
      doy == (153 * (IF m > 2 THEN m - 3 ELSE m + 9) + 2) \div 5 + d - 1
      doe == yoe * 365 + yoe \div 4 - yoe \div 100 + doy
  IN era * 146097 + doe - 719468

\* moment(ts * 1000).format('DD/MM/YYYY HH:mm') in a zone off minutes east
momentFormat_12h(ts, off) ==
  LET mins == (ts \div 60) + off
      c == CivilFromDays(mins \div 1440)
      mod == mins % 1440
      h12 == IF (mod \div 60) % 12 = 0 THEN 12 ELSE (mod \div 60) % 12
  IN Pad2(c.D) \o <<"/">> \o Pad2(c.M) \o <<"/">> \o Pad4(c.Y) \o <<" ">>
     \o Pad2(h12) \o <<":">> \o Pad2(mod % 60)

momentFormat(ts, off) ==
  LET mins == (ts \div 60) + off
      c == CivilFromDays(mins \div 1440)
      mod == mins % 1440
  IN Pad2(c.D) \o <<"/">> \o Pad2(c.M) \o <<"/">> \o Pad4(c.Y) \o <<" ">>
     \o Pad2(mod \div 60) \o <<":">> \o Pad2(mod % 60)

WellFormed(s) ==
  /\ Len(s) = 16
  /\ s[3] = "/" /\ s[6] = "/" /\ s[11] = " " /\ s[14] = ":"
  /\ \A i \in {1, 2, 4, 5, 7, 8, 9, 10, 12, 13, 15, 16} : IsDigit(s[i])

\* moment(s, 'DD/MM/YYYY HH:mm').unix() in a zone off minutes east
momentParse(s, off) ==
  IF ~WellFormed(s) THEN NaN
  ELSE LET D == Num2(s, 1)
           M == Num2(s, 4)
           Y == Num4(s, 7)
           h == Num2(s, 12)
           m == Num2(s, 15)
       IN IF M \in 1..12 /\ D >= 1 /\ D <= DaysInMonth(Y, M)
             /\ h <= 23 /\ m <= 59
          THEN (DaysFromCivil(Y, M, D) * 1440 + h * 60 + m - off) * 60
          ELSE NaN

(***************************************************************************)
(* Values the user can put into the bound inputs of the template           *)
(***************************************************************************)
EditableFields == {"pair", "datetime", "amount", "rate", "fee",
                   "feeCurrency", "link", "notes", "type"}
UserValues(f) ==
  IF f = "pair" THEN {"", "ETH_EUR"}
  ELSE IF f = "datetime"
    THEN {<< >>, momentFormat(1583020800, 0),
          <<"3", "1", "/", "0", "2", "/", "2", "0", "2", "0", " ",
            "1", "0", ":", "0", "0">>}
  ELSE IF f = "amount" THEN {"", "2"}
  ELSE IF f = "rate" THEN {"", "2000"}
  ELSE IF f = "fee" THEN {"", "x"}
  ELSE IF f = "feeCurrency" THEN {"", "USD"}
  ELSE IF f = "link" THEN {"", "l"}
  ELSE IF f = "notes" THEN {"", "some"}
  ELSE {"buy", "sell"}

\* the field set as one value, in declaration order
Fields == [id |-> id, pair |-> pair, datetime |-> datetime,
           amount |-> amount, rate |-> rate, fee |-> fee,
           feeCurrency |-> feeCurrency, link |-> link, notes |-> notes,
           type |-> type]

\* the field set that updateFields(trade) is to produce
FieldsOf(trade) ==
  [id |-> trade.trade_id, pair |-> trade.pair,
   datetime |-> momentFormat(trade.timestamp, utcOffset),
   amount |-> trade.amount, rate |-> trade.rate, fee |-> trade.fee,
   feeCurrency |-> trade.fee_currency, link |-> trade.link,
   notes |-> trade.notes, type |-> trade.trade_type]

\* the field set that resetFields is to produce at clock value t
DefaultFields(t) ==
  [id |-> "", pair |-> "", datetime |-> momentFormat(t, utcOffset),
   amount |-> "", rate |-> "", fee |-> "", feeCurrency |-> "", link |-> "",
   notes |-> "", type |-> "buy"]

(***************************************************************************)
(* Construction: the props are whatever the parent passes; the fields are  *)
(* at their initialisers; the watcher is not immediate.                    *)
(***************************************************************************)
Init ==
  /\ editMode \in BOOLEAN
  /\ otcTrade \in Records \cup {NULL}
  /\ id = "" /\ pair = "" /\ datetime = << >> /\ amount = "" /\ rate = ""
  /\ fee = "" /\ feeCurrency = "" /\ link = "" /\ notes = "" /\ type = "buy"
  /\ now = NowStart
  /\ utcOffset \in Offsets
  /\ emitted = << >>
  /\ lastOp = "create"
  /\ lastApplied = NULL
  /\ populatedBy = "init"
  /\ edits = 0

(***************************************************************************)
(* updateFields(trade)                                                     *)
(***************************************************************************)
updateFields_keepId(trade) ==
  /\ pair' = trade.pair
  /\ datetime' = momentFormat(trade.timestamp, utcOffset)
  /\ amount' = trade.amount
  /\ rate' = trade.rate
  /\ fee' = trade.fee
  /\ feeCurrency' = trade.fee_currency
  /\ link' = trade.link
  /\ notes' = trade.notes
  /\ type' = trade.trade_type
  /\ id' = id

updateFields_skipEmpty(trade) ==
  /\ pair' = trade.pair
  /\ datetime' = momentFormat(trade.timestamp, utcOffset)
  /\ amount' = trade.amount
  /\ rate' = trade.rate
  /\ fee' = trade.fee
  /\ feeCurrency' = trade.fee_currency
  /\ link' = (IF trade.link = "" THEN link ELSE trade.link)
  /\ notes' = (IF trade.notes = "" THEN notes ELSE trade.notes)
  /\ type' = trade.trade_type
  /\ id' = trade.trade_id

updateFields(trade) ==
  /\ pair' = trade.pair
  /\ datetime' = momentFormat(trade.timestamp, utcOffset)
  /\ amount' = trade.amount
  /\ rate' = trade.rate
  /\ fee' = trade.fee
  /\ feeCurrency' = trade.fee_currency
  /\ link' = trade.link
  /\ notes' = trade.notes
  /\ type' = trade.trade_type
  /\ id' = trade.trade_id

(***************************************************************************)
(* resetFields()                                                           *)
(***************************************************************************)
resetFields ==
  /\ id' = ""
  /\ pair' = ""
  /\ datetime' = momentFormat(now, utcOffset)
  /\ amount' = ""
  /\ rate' = ""
  /\ fee' = ""
  /\ feeCurrency' = ""
  /\ link' = ""
  /\ notes' = ""
  /\ type' = "buy"

(***************************************************************************)
(* @Watch('otcTrade') onTradeChange: the parent replaces the prop by       *)
(* newTrade and the watcher runs in the same flush.  The watcher does not  *)
(* run when the prop stays null.                                           *)
(***************************************************************************)
onTradeChange(newTrade) ==
  /\ newTrade /= NULL \/ otcTrade /= NULL
  /\ otcTrade' = newTrade
  /\ IF newTrade = NULL
     THEN /\ resetFields
          /\ populatedBy' = "reset"
          /\ lastApplied' = lastApplied
     ELSE /\ updateFields(newTrade)
          /\ populatedBy' = "update"
          /\ lastApplied' = newTrade
  /\ edits' = 0
  /\ emitted' = << >>
  /\ lastOp' = "onTradeChange"
  /\ UNCHANGED <<editMode, now, utcOffset>>

TradeChange == \E newTrade \in Records \cup {NULL} : onTradeChange(newTrade)

(***************************************************************************)
(* v-model: the user changes one bound input                               *)
(***************************************************************************)
userEdit(f, v) ==
  /\ edits < MaxEdits
  /\ pair' = (IF f = "pair" THEN v ELSE pair)
  /\ datetime' = (IF f = "datetime" THEN v ELSE datetime)
  /\ amount' = (IF f = "amount" THEN v ELSE amount)
  /\ rate' = (IF f = "rate" THEN v ELSE rate)
  /\ fee' = (IF f = "fee" THEN v ELSE fee)
  /\ feeCurrency' = (IF f = "feeCurrency" THEN v ELSE feeCurrency)
  /\ link' = (IF f = "link" THEN v ELSE link)
  /\ notes' = (IF f = "notes" THEN v ELSE notes)
  /\ type' = (IF f = "type" THEN v ELSE type)
  /\ id' = id
  /\ Fields' /= Fields
  /\ edits' = edits + 1
  /\ emitted' = << >>
  /\ lastOp' = "userEdit"
  /\ UNCHANGED <<editMode, otcTrade, now, utcOffset, lastApplied,
                 populatedBy>>

UserEdit == \E f \in EditableFields : \E v \in UserValues(f) : userEdit(f, v)

(***************************************************************************)
(* addTrade()                                                              *)
(***************************************************************************)
TradePayload_alwaysId ==
  [amount |-> amount, fee |-> fee, fee_currency |-> feeCurrency,
   link |-> link, notes |-> notes, pair |-> pair, rate |-> rate,
   location |-> Location,
   timestamp |-> momentParse(datetime, utcOffset),
   trade_type |-> type,
   trade_id |-> id]

TradePayload_recordId ==
  [amount |-> amount, fee |-> fee, fee_currency |-> feeCurrency,
   link |-> link, notes |-> notes, pair |-> pair, rate |-> rate,
   location |-> Location,
   timestamp |-> momentParse(datetime, utcOffset),
   trade_type |-> type,
   trade_id |-> IF editMode
                THEN (IF otcTrade = NULL THEN id ELSE otcTrade.trade_id)
                ELSE UNDEFINED]

TradePayload_swap ==
  [amount |-> amount, fee |-> rate, fee_currency |-> feeCurrency,
   link |-> link, notes |-> notes, pair |-> pair, rate |-> fee,
   location |-> Location,
   timestamp |-> momentParse(datetime, utcOffset),
   trade_type |-> type,
   trade_id |-> IF editMode THEN id ELSE UNDEFINED]

\* the object literal built by addTrade
TradePayload ==
  [amount |-> amount, fee |-> fee, fee_currency |-> feeCurrency,
   link |-> link, notes |-> notes, pair |-> pair, rate |-> rate,
   location |-> Location,
   timestamp |-> momentParse(datetime, utcOffset),
   trade_type |-> type,
   trade_id |-> IF editMode THEN id ELSE UNDEFINED]

addTrade_thenReset ==
  /\ emitted' = <<[name |-> "save", payload |-> TradePayload,
                   seen |-> Fields]>>
  /\ resetFields
  /\ lastOp' = "addTrade"
  /\ UNCHANGED <<editMode, otcTrade, now, utcOffset, lastApplied,
                 populatedBy, edits>>

addTrade ==
  /\ emitted' = <<[name |-> "save", payload |-> TradePayload,
                   seen |-> Fields]>>
  /\ lastOp' = "addTrade"
  /\ UNCHANGED <<fieldVars, editMode, otcTrade, now, utcOffset, lastApplied,
                 populatedBy, edits>>

(***************************************************************************)
(* @Emit() cancel(): the method body runs, then 'cancel' is emitted        *)
(***************************************************************************)
cancel_emitFirst ==
  /\ emitted' = <<[name |-> "cancel", seen |-> Fields]>>
  /\ resetFields
  /\ populatedBy' = "reset"
  /\ edits' = 0
  /\ lastOp' = "cancel"
  /\ UNCHANGED <<editMode, otcTrade, now, utcOffset, lastApplied>>

cancel ==
  /\ resetFields
  /\ emitted' = <<[name |-> "cancel", seen |-> Fields']>>
  /\ populatedBy' = "reset"
  /\ edits' = 0
  /\ lastOp' = "cancel"
  /\ UNCHANGED <<editMode, otcTrade, now, utcOffset, lastApplied>>

(***************************************************************************)
(* Environment: the parent flips editMode; the clock advances              *)
(***************************************************************************)
SetEditMode ==
  /\ editMode' = ~editMode
  /\ emitted' = << >>
  /\ lastOp' = "setEditMode"
  /\ UNCHANGED <<fieldVars, otcTrade, now, utcOffset, lastApplied,
                 populatedBy, edits>>

Tick ==
  /\ now < NowStart + MaxTicks * TickSeconds
  /\ now' = now + TickSeconds
  /\ emitted' = << >>
  /\ lastOp' = "tick"
  /\ UNCHANGED <<fieldVars, editMode, otcTrade, utcOffset, lastApplied,
                 populatedBy, edits>>

Next ==
  \/ TradeChange
  \/ UserEdit
  \/ addTrade
  \/ cancel
  \/ SetEditMode
  \/ Tick

Spec == Init /\ [][Next]_vars

(***************************************************************************)
(* Round trip of the timestamp: records over a dense range of timestamps   *)
(* are applied by the watcher and submitted back.                          *)
(***************************************************************************)
RTTradeChange == \E newTrade \in RTRecords : onTradeChange(newTrade)

NextRT ==
  \/ RTTradeChange
  \/ addTrade

SpecRT == Init /\ [][NextRT]_vars

(***************************************************************************)
(* Properties                                                              *)
(***************************************************************************)
\* the payload carried by the save event of the handler that just ran
SavedPayload == emitted[1].payload

\* t rounded down to the minute
FloorMinute(t) == t - (t % 60)

\* the payload addTrade is to emit for a record submitted unedited, with
\* the timestamp ts
PayloadOf(trade, ts) ==
  [amount |-> trade.amount, fee |-> trade.fee,
   fee_currency |-> trade.fee_currency, link |-> trade.link,
   notes |-> trade.notes, pair |-> trade.pair, rate |-> trade.rate,
   location |-> Location, timestamp |-> ts,
   trade_type |-> trade.trade_type, trade_id |-> trade.trade_id]

\* C1: once the watcher has run for a non-null record R, and until the next
\* user edit or reset, every field equals the corresponding field of R and
\* datetime is R.timestamp in the display format; no state holds a mix of
\* R and of earlier contents.
C1_FieldsFromRecord ==
  (populatedBy = "update" /\ edits = 0) =>
    /\ otcTrade /= NULL
    /\ lastApplied = otcTrade
    /\ Fields = FieldsOf(otcTrade)

C1_Witness ==
  /\ lastOp = "onTradeChange"
  /\ otcTrade = R1
  /\ Fields = FieldsOf(R1)
  /\ datetime = momentFormat(1600000000, utcOffset)

\* C2 (as stated): in edit mode, once a record has been applied, the saved
\* trade_id is the trade_id of the most recently applied record.
C2_Original ==
  (lastOp = "addTrade" /\ editMode /\ lastApplied /= NULL) =>
    SavedPayload.trade_id = lastApplied.trade_id

\* C2 (amended): in edit mode the saved trade_id is the id field; it is the
\* trade_id of the most recently applied record as long as no reset (cancel,
\* or the record becoming absent) has run since, and the empty string
\* otherwise.
C2_Amended ==
  (lastOp = "addTrade" /\ editMode) =>
    /\ SavedPayload.trade_id = id
    /\ populatedBy = "update" => id = lastApplied.trade_id
    /\ populatedBy /= "update" => id = ""

C2_Witness ==
  /\ lastOp = "addTrade"
  /\ editMode
  /\ populatedBy = "update"
  /\ edits > 0
  /\ SavedPayload.trade_id = lastApplied.trade_id

\* C3: the saved payload carries a trade_id if and only if editMode is true
\* at the moment of the submit.
C3_IdIffEditMode ==
  lastOp = "addTrade" => (SavedPayload.trade_id /= UNDEFINED <=> editMode)

C3_Witness ==
  /\ lastOp = "addTrade"
  /\ ~editMode
  /\ id /= ""
  /\ SavedPayload.trade_id = UNDEFINED

\* C4 (as stated): a record applied and submitted in edit mode without a
\* user edit is saved with its own trade_id, its own fields and exactly its
\* own timestamp.
C4_Original ==
  (lastOp = "addTrade" /\ editMode /\ populatedBy = "update" /\ edits = 0) =>
    SavedPayload = PayloadOf(otcTrade, otcTrade.timestamp)

\* C4 (amended): such a record is saved with its own trade_id and fields and
\* with its timestamp rounded down to the minute.
C4_Amended ==
  (lastOp = "addTrade" /\ editMode /\ populatedBy = "update" /\ edits = 0) =>
    SavedPayload = PayloadOf(otcTrade, FloorMinute(otcTrade.timestamp))

C4_Witness ==
  /\ lastOp = "addTrade"
  /\ editMode
  /\ populatedBy = "update"
  /\ edits = 0
  /\ otcTrade = R1
  /\ SavedPayload.trade_id = "abc"
  /\ SavedPayload.timestamp = 1599999960

\* C5: with no record supplied, right after construction and right after
\* the record becomes absent, the fields hold the defaults and datetime the
\* current moment.
C5_Claim ==
  (otcTrade = NULL /\ lastOp \in {"create", "onTradeChange"}) =>
    Fields = DefaultFields(now)

\* C6: whatever the state before, cancel leaves every field at its default
\* with datetime the current moment, and emits exactly one event, 'cancel',
\* whose listener already sees the reset fields; no save is emitted.
C6_CancelResets ==
  lastOp = "cancel" =>
    /\ Fields = DefaultFields(now)
    /\ emitted = <<[name |-> "cancel", seen |-> DefaultFields(now)]>>

C6_Witness ==
  /\ lastOp = "cancel"
  /\ editMode
  /\ otcTrade /= NULL
  /\ lastApplied = otcTrade
  /\ id = ""
  /\ now > NowStart

\* C7: addTrade changes no field and no prop and emits exactly one event,
\* 'save'; the fields change only in a record change, a user edit or a
\* cancel.
C7_SubmitFrame ==
  [][/\ lastOp' = "addTrade" =>
          /\ UNCHANGED <<fieldVars, editMode, otcTrade>>
          /\ Len(emitted') = 1
          /\ emitted'[1].name = "save"
     /\ Fields' /= Fields => lastOp' \in {"onTradeChange", "userEdit", "cancel"}
    ]_vars

C7_Witness ==
  /\ lastOp = "addTrade"
  /\ populatedBy = "update"
  /\ edits > 0
  /\ Fields /= FieldsOf(otcTrade)
  /\ emitted[1].name = "save"

\* C8: every submit emits a save whose payload has location 'external',
\* trade_type the current direction and the seven text fields verbatim,
\* numeric or not; addTrade is never disabled.
C8_PayloadVerbatim ==
  /\ ENABLED addTrade
  /\ lastOp = "addTrade" =>
       /\ Len(emitted) = 1
       /\ emitted[1].name = "save"
       /\ SavedPayload.location = "external"
       /\ SavedPayload.trade_type = type
       /\ SavedPayload.pair = pair
       /\ SavedPayload.amount = amount
       /\ SavedPayload.rate = rate
       /\ SavedPayload.fee = fee
       /\ SavedPayload.fee_currency = feeCurrency
       /\ SavedPayload.link = link
       /\ SavedPayload.notes = notes

C8_Witness ==
  /\ lastOp = "addTrade"
  /\ ~editMode
  /\ otcTrade = NULL
  /\ populatedBy = "init"
  /\ pair = "ETH_EUR" /\ fee = "x" /\ type = "sell"
  /\ SavedPayload.fee = "x"
  /\ SavedPayload.trade_id = UNDEFINED
  /\ SavedPayload.trade_type = "sell"
  /\ SavedPayload.location = "external"
  /\ SavedPayload.timestamp = NaN

\* C9: a component constructed with a record already supplied has its
\* fields populated from that record.
C9_Claim ==
  (lastOp = "create" /\ otcTrade /= NULL) => Fields = FieldsOf(otcTrade)

\* C10: formatting a timestamp T as updateFields does and parsing the result
\* as addTrade does yields T - (T mod 60); it is T exactly when T is a
\* multiple of 60.
C10_RoundTrip ==
  (lastOp = "addTrade" /\ populatedBy = "update") =>
    /\ SavedPayload.timestamp = FloorMinute(otcTrade.timestamp)
    /\ (SavedPayload.timestamp = otcTrade.timestamp)
         <=> (otcTrade.timestamp % 60 = 0)

C10_Witness ==
  /\ lastOp = "addTrade"
  /\ populatedBy = "update"
  /\ otcTrade.timestamp = 86399
  /\ datetime = momentFormat(86399, utcOffset)
  /\ SavedPayload.timestamp = 86340

====
